---- MODULE Spec2Model ----
(***************************************************************************)
(* Model of the services of the GraphRAG repository:                       *)
(*   query-service/src/main.py            message_handler and              *)
(*                                        self_refinement_loop             *)
(*   query-service/src/modules/text2cypher.py                              *)
(*                                        generate_cypher, repair_cypher,  *)
(*                                        post_process_cypher,             *)
(*                                        get_schema_dict                  *)
(*   query-service/src/modules/exemplars.py                                *)
(*                                        FewShotRetriever, add_exemplar   *)
(*   question-api/src/main.py             answer_question                  *)
(*   answer-service/src/main.py           message_handler                  *)
(*                                                                         *)
(* A Cypher query is a sequence of lexical tokens: a word ([a-zA-Z0-9_]+), *)
(* one blank, a quoted string literal, or a punctuation mark.  Two word    *)
(* tokens are never adjacent (they would be one word to the regexes of     *)
(* post_process_cypher).                                                   *)
(***************************************************************************)
EXTENDS Integers, Sequences, FiniteSets, TLC

(***************************************************************************)
(* Tokens                                                                  *)
(***************************************************************************)
WS == {" "}

Punct == {"(", ")", ":", ".", ",", ";", "=", "-[", "]->", "+", "$"}

StrLits == {"'physics'", "'x'", "'limit 5'"}

\* the literals whose text holds the word LIMIT, blanks and a digit
LimitLits == {"'limit 5'"}

\* [a-zA-Z0-9_]+ : every token that is no blank, no literal and no punctuation
IsWord(t) == t \notin (WS \cup Punct \cup StrLits)

\* \d+ at the start of a token
NumToks == {"100", "50", "5"}

\* (?i) RETURN, LIMIT, SKIP, ORDER, BY, toLower in the letter cases the drafts use
IsReturnTok(t) == t \in {"RETURN", "return", "Return"}
IsLimitTok(t) == t \in {"LIMIT", "limit", "Limit"}
IsSkipTok(t) == t \in {"SKIP", "skip", "Skip"}
IsOrderTok(t) == t \in {"ORDER", "order", "Order"}
IsByTok(t) == t \in {"BY", "by", "By"}
IsToLowerTok(t) == t \in {"toLower", "tolower", "TOLOWER", "ToLower"}

\* text2cypher.py:191-194
target_props ==
    {"name", "scholar_type", "fullName", "knownName",
     "gender", "prize_id", "category", "motivation"}

Tok(q, i) == IF i >= 1 /\ i <= Len(q) THEN q[i] ELSE "<end>"

\* the first position >= i that holds no blank (Len(q)+1 when there is none): \s*
RECURSIVE SkipWS(_, _)
SkipWS(q, i) ==
    IF i <= Len(q) /\ q[i] \in WS THEN SkipWS(q, i + 1) ELSE i

Slice(q, a, b) == IF a > b THEN << >> ELSE SubSeq(q, a, b)

(***************************************************************************)
(* Rule 1: return-clause property expansion (text2cypher.py:151-187)       *)
(***************************************************************************)
\* r"\(\s*([a-zA-Z0-9_]+)\s*:\s*([a-zA-Z0-9_]+)" matches at position i
DeclAt(q, i) ==
    LET v == SkipWS(q, i + 1)
        c == SkipWS(q, v + 1)
        l == SkipWS(q, c + 1)
    IN  /\ Tok(q, i) = "("
        /\ v <= Len(q) /\ IsWord(q[v])
        /\ Tok(q, c) = ":"
        /\ l <= Len(q) /\ IsWord(q[l])

DeclVar(q, i) == q[SkipWS(q, i + 1)]

DeclLabel(q, i) == q[SkipWS(q, SkipWS(q, SkipWS(q, i + 1) + 1) + 1)]

DeclPositions(q) == {i \in 1..Len(q) : DeclAt(q, i)}

\* the keys of var_to_label
DeclaredVars(q) == {DeclVar(q, i) : i \in DeclPositions(q)}

\* var_to_label[v]: a later declaration overwrites an earlier one
VarLabel(q, v) ==
    LET ps == {i \in DeclPositions(q) : DeclVar(q, i) = v}
        last == CHOOSE i \in ps : \A j \in ps : j <= i
    IN  DeclLabel(q, last)

ReturnPositions(q) == {i \in 1..Len(q) : IsReturnTok(q[i])}

LastReturn(q) ==
    CHOOSE i \in ReturnPositions(q) : \A j \in ReturnPositions(q) : j <= i

\* r"(\s+(?:ORDER\s+BY|SKIP|LIMIT).*)" can match in body starting at position i
SuffixAt(body, i) ==
    LET k == SkipWS(body, i)
    IN  /\ Tok(body, i) \in WS
        /\ k <= Len(body)
        /\ \/ IsSkipTok(body[k])
           \/ IsLimitTok(body[k])
           \/ /\ IsOrderTok(body[k])
              /\ Tok(body, k + 1) \in WS
              /\ IsByTok(Tok(body, SkipWS(body, k + 1)))

SuffixPositions(body) == {i \in 1..Len(body) : SuffixAt(body, i)}

\* suffix_match.start(): the leftmost match; Len(body)+1 when there is none
SuffixStart(body) ==
    IF SuffixPositions(body) = {} THEN Len(body) + 1
    ELSE CHOOSE i \in SuffixPositions(body) : \A j \in SuffixPositions(body) : i <= j

BareAt_dot_allowed(content, i) ==
    /\ IsWord(content[i])
    /\ Tok(content, SkipWS(content, i + 1)) # "("

\* the negative lookahead (?!\s*[\.\(]) after the word at position i of content
BareAt(content, i) ==
    /\ IsWord(content[i])
    /\ Tok(content, SkipWS(content, i + 1)) \notin {".", "("}

replace_var_always_name(q, v) ==
    IF v \in DeclaredVars(q) THEN <<v, ".", "name">> ELSE <<v>>

\* replace_var (text2cypher.py:176-181)
replace_var(q, v) ==
    IF v \in DeclaredVars(q)
    THEN <<v, ".", IF VarLabel(q, v) = "Scholar" THEN "knownName" ELSE "name">>
    ELSE <<v>>

\* re.sub over content (text2cypher.py:184), left to right from position i
RECURSIVE ExpandFrom(_, _, _)
ExpandFrom(q, content, i) ==
    IF i > Len(content) THEN << >>
    ELSE (IF BareAt(content, i) THEN replace_var(q, content[i]) ELSE <<content[i]>>)
         \o ExpandFrom(q, content, i + 1)

ExpandReturn(q) ==
    IF DeclaredVars(q) = {} \/ ReturnPositions(q) = {} THEN q
    ELSE LET r == LastReturn(q)
             last_body == Slice(q, r + 1, Len(q))
             s == SuffixStart(last_body)
             content == Slice(last_body, 1, s - 1)
             suffix == Slice(last_body, s, Len(last_body))
         IN  Slice(q, 1, r) \o ExpandFrom(q, content, 1) \o suffix

(***************************************************************************)
(* Rule 2: lower-case comparisons (text2cypher.py:189-216)                 *)
(***************************************************************************)
\* the length of the target that starts at position i, 0 when none starts there
TargetLen(q, i) ==
    IF Tok(q, i) \in StrLits THEN 1
    ELSE IF /\ i + 2 <= Len(q)
            /\ IsWord(q[i])
            /\ q[i + 1] = "."
            /\ q[i + 2] \in target_props
         THEN 3
         ELSE 0

PrefixEnd_exact_text(q, i) ==
    IF Tok(q, i) = "toLower" /\ Tok(q, i + 1) = "(" THEN i + 2 ELSE 0

\* (?i:toLower\s*\(\s*) starts at i: the position right after it, 0 when it does not
PrefixEnd(q, i) ==
    LET p == SkipWS(q, i + 1)
    IN  IF IsToLowerTok(Tok(q, i)) /\ Tok(q, p) = "("
        THEN SkipWS(q, p + 1)
        ELSE 0

\* pattern.sub(replace, query) (text2cypher.py:208-216), from position i
RECURSIVE FoldFrom(_, _)
FoldFrom(q, i) ==
    IF i > Len(q) THEN << >>
    ELSE LET e == PrefixEnd(q, i)
         IN  IF e > 0 /\ TargetLen(q, e) > 0
             THEN Slice(q, i, e + TargetLen(q, e) - 1)
                  \o FoldFrom(q, e + TargetLen(q, e))
             ELSE IF TargetLen(q, i) > 0
                  THEN <<"toLower", "(">> \o Slice(q, i, i + TargetLen(q, i) - 1)
                       \o <<")">> \o FoldFrom(q, i + TargetLen(q, i))
                  ELSE <<q[i]>> \o FoldFrom(q, i + 1)

FoldCase(q) == FoldFrom(q, 1)

(***************************************************************************)
(* Rule 3: LIMIT 100 (text2cypher.py:218-224)                              *)
(***************************************************************************)
\* re.search(r"\bLIMIT\s+\d+", query, re.IGNORECASE): the search runs over the
\* whole text, the inside of string literals included
HasLimit(q) ==
    \E i \in 1..Len(q) :
        \/ /\ IsLimitTok(q[i])
           /\ Tok(q, i + 1) \in WS
           /\ Tok(q, SkipWS(q, i + 1)) \in NumToks
        \/ q[i] \in LimitLits

\* str.rstrip()
RECURSIVE RStrip(_)
RStrip(q) ==
    IF Len(q) > 0 /\ q[Len(q)] \in WS THEN RStrip(Slice(q, 1, Len(q) - 1)) ELSE q

EnsureLimit(q) ==
    IF HasLimit(q) THEN q
    ELSE LET s == RStrip(q)
         IN  IF Len(s) > 0 /\ s[Len(s)] = ";"
             THEN Slice(s, 1, Len(s) - 1) \o <<" ", "LIMIT", " ", "100", ";">>
             ELSE s \o <<" ", "LIMIT", " ", "100">>

\* text2cypher.py:147-226
post_process_cypher(query) == EnsureLimit(FoldCase(ExpandReturn(query)))

(***************************************************************************)
(* generate_cypher and repair_cypher: what they return for an oracle draft *)
(***************************************************************************)
\* text2cypher.py:245-247
generated_query(draft) == post_process_cypher(draft)

repaired_query_raw(draft) == draft

\* text2cypher.py:258
repaired_query(draft) == post_process_cypher(draft)

(***************************************************************************)
(* The values a request can meet                                           *)
(***************************************************************************)
\* how many different drafts the oracle can produce
NumDrafts == 3

DraftPool ==
    << \* MATCH (s:Scholar)-[:WON]->(p:Prize) RETURN s, p.category
       <<"MATCH", " ", "(", "s", ":", "Scholar", ")", "-[", ":", "WON", "]->",
         "(", "p", ":", "Prize", ")", " ", "RETURN", " ", "s", ",", " ",
         "p", ".", "category">>,
       \* MATCH (s:Scholar) RETURN toLower(s.knownName) LIMIT 5
       <<"MATCH", " ", "(", "s", ":", "Scholar", ")", " ", "RETURN", " ",
         "toLower", "(", "s", ".", "knownName", ")", " ", "LIMIT", " ", "5">>,
       \* MATCH (name:City) RETURN name;
       <<"MATCH", " ", "(", "name", ":", "City", ")", " ", "RETURN", " ",
         "name", ";">>,
       \* MATCH (p:Prize) WHERE p.category = 'physics' RETURN p
       <<"MATCH", " ", "(", "p", ":", "Prize", ")", " ", "WHERE", " ", "p", ".",
         "category", " ", "=", " ", "'physics'", " ", "RETURN", " ", "p">>,
       \* RETURN 5
       <<"RETURN", " ", "5">> >>

Drafts ==
    {DraftPool[i] : i \in 1..(IF NumDrafts < Len(DraftPool) THEN NumDrafts ELSE Len(DraftPool))}

Questions == {"which scholars won physics"}

\* the bytes of a message: not UTF-8, not JSON, JSON that is no object,
\* an object without a (non-empty) question, an object with a question
MessageKinds == {"not_utf8", "not_json", "not_object", "no_question", "ok"}

Messages ==
    {[kind |-> k, question |-> ""] : k \in MessageKinds \ {"ok"}}
    \cup {[kind |-> "ok", question |-> q] : q \in Questions}

\* what the catalogue of the database holds: its node tables, and its relationship
\* tables with the (from, to) pairs SHOW_CONNECTION lists for each
Catalogs ==
    {[nodes |-> <<"Scholar", "Prize">>,
      rels |-> <<[name |-> "WON", conns |-> <<[from |-> "Scholar", to |-> "Prize"]>>]>>],
     [nodes |-> <<"Scholar", "Prize", "Institution">>,
      rels |-> <<[name |-> "WON", conns |-> <<[from |-> "Scholar", to |-> "Prize"]>>],
                 [name |-> "AFFILIATED_WITH",
                  conns |-> <<[from |-> "Scholar", to |-> "Institution"]>>]>>]}

\* the rows of CALL TABLE_INFO(table): name and type of each property
TableInfo(table) ==
    CASE table = "Scholar" -> <<[name |-> "knownName", type |-> "STRING"]>>
      [] table = "Prize" -> <<[name |-> "category", type |-> "STRING"],
                              [name |-> "awardYear", type |-> "INT64"]>>
      [] table = "Institution" -> <<[name |-> "name", type |-> "STRING"]>>
      [] OTHER -> << >>

CatalogQuery(kind, table) == [query |-> kind, table |-> table]

\* text2cypher.py:32-36: rels, one entry per row of SHOW_CONNECTION
RECURSIVE RelRows(_, _)
RelRows(rels, i) ==
    IF i > Len(rels) THEN << >>
    ELSE [j \in 1..Len(rels[i].conns) |->
             [name |-> rels[i].name, from |-> rels[i].conns[j].from,
              to |-> rels[i].conns[j].to]]
         \o RelRows(rels, i + 1)

\* the catalogue queries get_schema_dict issues, in order (text2cypher.py:26-50)
SchemaQueries(cat) ==
    LET rows == RelRows(cat.rels, 1)
    IN  <<CatalogQuery("SHOW_TABLES", "NODE"), CatalogQuery("SHOW_TABLES", "REL")>>
        \o [i \in 1..Len(cat.rels) |-> CatalogQuery("SHOW_CONNECTION", cat.rels[i].name)]
        \o [i \in 1..Len(cat.nodes) |-> CatalogQuery("TABLE_INFO", cat.nodes[i])]
        \o [i \in 1..Len(rows) |-> CatalogQuery("TABLE_INFO", rows[i].name)]

\* get_schema_dict has issued the first k queries of its plan; the last of them
\* returned its rows (ok_last) or raised
IssuedQueries(plan, k, ok_last) ==
    [i \in 1..k |-> [call |-> plan[i], ok |-> (i < k \/ ok_last)]]

\* the schema get_schema_dict returns (text2cypher.py:23, 39-61)
get_schema_dict(cat) ==
    LET rows == RelRows(cat.rels, 1)
    IN  [nodes |-> [i \in 1..Len(cat.nodes) |->
                      [label |-> cat.nodes[i], properties |-> TableInfo(cat.nodes[i])]],
         edges |-> [i \in 1..Len(rows) |->
                      [label |-> rows[i].name, from |-> rows[i].from, to |-> rows[i].to,
                       properties |-> TableInfo(rows[i].name)]]]

NoSchema == [nodes |-> << >>, edges |-> << >>]

FullSchemas == {get_schema_dict(cat) : cat \in Catalogs}

\* the oracle's answer to _prune: any of these, whatever the full schema
PrunedSchemas ==
    {[nodes |-> <<[label |-> "Scholar", properties |-> TableInfo("Scholar")]>>, edges |-> << >>],
     [nodes |-> <<[label |-> "Prize", properties |-> TableInfo("Prize")]>>, edges |-> << >>]}

\* str(e) of a failed EXPLAIN
ErrorTexts == {"Binder exception", "Parser exception"}

\* what conn.execute(cypher) can yield: the last one holds a DATE value,
\* which json.dumps cannot serialise
ResultSets ==
    {[columns |-> <<"c">>, rows |-> << >>],
     [columns |-> <<"c">>, rows |-> << <<"v">> >>],
     [columns |-> <<"c">>, rows |-> << <<"DATE">> >>]}

JsonSerializable(res) == \A i \in 1..Len(res.rows) : "DATE" \notin {res.rows[i][j] : j \in 1..Len(res.rows[i])}

NoPayload == [type |-> "none"]

ErrorPayload(text) == [type |-> "error", error |-> text]

ResultPayload(q, c, res, t) ==
    [type |-> "result", question |-> q, cypher |-> c,
     columns |-> res.columns, rows |-> res.rows, timings |-> t]

\* main.py:47
max_retries_five == 2 + 3

max_retries == 3

(***************************************************************************)
(* State of the query service while it handles one message after another   *)
(***************************************************************************)
VARIABLES
    pc,            \* where message_handler stands
    msg,           \* the message being handled
    question,      \* payload.get("question")
    full_schema,   \* get_schema_dict(conn)
    pruned_schema, \* the pruned schema generate_cypher returned
    cypher,        \* the current draft query
    attempt,       \* the loop variable of self_refinement_loop
    retry_info,    \* the retry_info of the running iteration
    retries,       \* timings["retries"]
    last_error,    \* str(e) of the failed validation
    loop_outcome,  \* "none", "running", "success", "exhausted", "raised"
    caught,        \* the call whose exception main.py:122 caught ("none" if none)
    uncaught,      \* the call whose exception left message_handler ("none" if none)
    outbox,        \* the payload handed to msg.respond
    reply,         \* what the requester received
    oracle_calls,  \* the oracle calls of this request, in order, with their outcome
    validated,     \* the EXPLAIN calls of this request, in order, with their outcome
    repair_args,   \* the arguments of every repair_cypher call of this request
    executed,      \* the queries given to conn.execute(cypher) at main.py:109
    catalog_calls, \* the catalogue queries get_schema_dict issued for this request
    \* post_process_cypher and its rules, applied to one input
    pp_rule,       \* the function applied
    pp_in,         \* the input query
    pp_applied,    \* how many times it has been applied (0, 1 or 2)
    pp_once,       \* the function applied to pp_in
    pp_twice,      \* the function applied to pp_once
    \* exemplars.py
    EXEMPLARS,     \* the module-level list of exemplars
    retriever,     \* the module-level _retriever
    adds,          \* how many add_exemplar calls have started
    writer_pc,     \* where each add_exemplar call stands
    writer_built,  \* the FewShotRetriever an add_exemplar call has built
    reader_pc,     \* where each top_k call stands
    reader_self,   \* the retriever a top_k call runs on
    top_k_call,    \* the last top_k call: its k, the similarities and the result
    \* question-api: answer_question, and the answer service it calls
    api_pc,        \* where answer_question stands
    api_question,  \* question.question
    memcache,      \* what memcached holds under the key of each question
    cached_value,  \* mem_client.get(cache_key)
    data,          \* the reply of the query service
    answer,        \* the answer parsed from the reply of the answer service
    response,      \* the HTTP response of POST /question
    api_requests,  \* the NATS requests of this POST, in order, with their outcome
    mem_sets,      \* the mem_client.set calls of this POST that stored a value
    generated      \* the answer the answer service generated and sent for this POST

handler_vars ==
    <<pc, msg, question, full_schema, pruned_schema, cypher, attempt, retry_info,
      retries, last_error, loop_outcome, caught, uncaught, outbox, reply,
      oracle_calls, validated, repair_args, executed, catalog_calls>>

pp_vars == <<pp_rule, pp_in, pp_applied, pp_once, pp_twice>>

retriever_vars ==
    <<EXEMPLARS, retriever, adds, writer_pc, writer_built, reader_pc, reader_self, top_k_call>>

api_vars ==
    <<api_pc, api_question, memcache, cached_value, data, answer, response,
      api_requests, mem_sets, generated>>

vars == <<handler_vars, pp_vars, retriever_vars, api_vars>>

\* what message_handler never touches
outside_handler == <<pp_vars, retriever_vars, api_vars>>

loop_vars == <<cypher, attempt, retry_info, retries, last_error, loop_outcome, pruned_schema>>

log_vars == <<oracle_calls, validated, repair_args, executed, catalog_calls>>

NoRetryInfo == [attempt |-> 0, status |-> "none", repaired |-> FALSE]

\* main.py:49
retry_info_from_zero(a) == [attempt |-> a, status |-> "unknown", repaired |-> FALSE]

new_retry_info(a) == [attempt |-> a + 1, status |-> "unknown", repaired |-> FALSE]

\* main.py:71
is_last_attempt_past_end(a) == a = max_retries

is_last_attempt(a) == a = max_retries - 1

HandlerInit ==
    /\ pc = "idle"
    /\ msg = [kind |-> "none", question |-> ""]
    /\ question = ""
    /\ full_schema = NoSchema
    /\ pruned_schema = NoSchema
    /\ cypher = << >>
    /\ attempt = 0
    /\ retry_info = NoRetryInfo
    /\ retries = << >>
    /\ last_error = ""
    /\ loop_outcome = "none"
    /\ caught = "none"
    /\ uncaught = "none"
    /\ outbox = NoPayload
    /\ reply = NoPayload
    /\ oracle_calls = << >>
    /\ validated = << >>
    /\ repair_args = << >>
    /\ executed = << >>
    /\ catalog_calls = << >>

\* an exception raised inside the try of message_handler: main.py:122-124
Raise(where) ==
    /\ caught' = where
    /\ outbox' = ErrorPayload(where)
    /\ pc' = "respond_error"

\* main.py:89-98: a message arrives; decode, json.loads, payload.get("question")
Receive ==
    /\ pc \in {"idle", "done"}
    /\ \E m \in Messages :
        /\ msg' = m
        /\ question' = m.question
        /\ full_schema' = NoSchema
        /\ pruned_schema' = NoSchema
        /\ cypher' = << >>
        /\ attempt' = 0
        /\ retry_info' = NoRetryInfo
        /\ retries' = << >>
        /\ last_error' = ""
        /\ loop_outcome' = "none"
        /\ reply' = NoPayload
        /\ oracle_calls' = << >>
        /\ validated' = << >>
        /\ repair_args' = << >>
        /\ executed' = << >>
        /\ catalog_calls' = << >>
        /\ CASE m.kind = "not_utf8" ->
                  \* msg.data.decode() at main.py:90 is outside the try
                  /\ pc' = "done"
                  /\ uncaught' = "decode"
                  /\ caught' = "none"
                  /\ outbox' = NoPayload
             [] m.kind = "not_json" -> Raise("json.loads") /\ uncaught' = "none"
             [] m.kind = "not_object" -> Raise("payload.get") /\ uncaught' = "none"
             [] m.kind = "no_question" ->
                  /\ pc' = "respond_missing"
                  /\ outbox' = ErrorPayload("missing question")
                  /\ caught' = "none"
                  /\ uncaught' = "none"
             [] OTHER ->
                  /\ pc' = "open_db"
                  /\ outbox' = NoPayload
                  /\ caught' = "none"
                  /\ uncaught' = "none"
    /\ UNCHANGED outside_handler

\* main.py:97: msg.respond(b'{"error":"missing question"}'); return
RespondMissing ==
    /\ pc = "respond_missing"
    /\ \/ /\ reply' = outbox
          /\ pc' = "done"
          /\ UNCHANGED <<caught, outbox>>
       \/ /\ Raise("respond")
          /\ UNCHANGED reply
    /\ UNCHANGED <<msg, question, full_schema, uncaught>>
    /\ UNCHANGED loop_vars
    /\ UNCHANGED log_vars
    /\ UNCHANGED outside_handler

\* main.py:100-101: kuzu.Database(...), kuzu.Connection(db)
OpenDatabase ==
    /\ pc = "open_db"
    /\ \/ /\ pc' = "schema"
          /\ UNCHANGED <<caught, outbox>>
       \/ Raise("database")
    /\ UNCHANGED <<msg, question, full_schema, uncaught, reply>>
    /\ UNCHANGED loop_vars
    /\ UNCHANGED log_vars
    /\ UNCHANGED outside_handler

get_schema_swallows_failure ==
    /\ pc = "schema"
    /\ \E cat \in Catalogs :
        \/ /\ catalog_calls' = IssuedQueries(SchemaQueries(cat), Len(SchemaQueries(cat)), TRUE)
           /\ full_schema' = get_schema_dict(cat)
        \/ \E k \in 1..Len(SchemaQueries(cat)) :
           /\ catalog_calls' = IssuedQueries(SchemaQueries(cat), k, FALSE)
           /\ full_schema' = NoSchema
    /\ pc' = "generate"
    /\ UNCHANGED <<msg, question, uncaught, reply, caught, outbox>>
    /\ UNCHANGED loop_vars
    /\ UNCHANGED <<oracle_calls, validated, repair_args, executed>>
    /\ UNCHANGED outside_handler

\* main.py:103 with text2cypher.py:22-61: full_schema = get_schema_dict(conn); every
\* conn.execute of get_schema_dict returns its rows or raises
GetSchema ==
    /\ pc = "schema"
    /\ \E cat \in Catalogs :
        \/ /\ catalog_calls' = IssuedQueries(SchemaQueries(cat), Len(SchemaQueries(cat)), TRUE)
           /\ full_schema' = get_schema_dict(cat)
           /\ pc' = "generate"
           /\ UNCHANGED <<caught, outbox>>
        \/ \E k \in 1..Len(SchemaQueries(cat)) :
           \* the k-th catalogue query raises
           /\ catalog_calls' = IssuedQueries(SchemaQueries(cat), k, FALSE)
           /\ Raise("schema")
           /\ UNCHANGED full_schema
    /\ UNCHANGED <<msg, question, uncaught, reply>>
    /\ UNCHANGED loop_vars
    /\ UNCHANGED <<oracle_calls, validated, repair_args, executed>>
    /\ UNCHANGED outside_handler

OracleCall(name, ok) == [call |-> name, ok |-> ok]

\* main.py:32-47 with text2cypher.py:228-247: generate_cypher
Generate ==
    /\ pc = "generate"
    /\ \/ \* _prune raises
          /\ oracle_calls' = Append(oracle_calls, OracleCall("prune", FALSE))
          /\ Raise("prune")
          /\ loop_outcome' = "raised"
          /\ UNCHANGED <<cypher, pruned_schema, attempt, retries>>
       \/ \* _text2cypher raises
          /\ oracle_calls' = oracle_calls \o
                 <<[call |-> "prune", ok |-> TRUE, input_schema |-> full_schema],
                   OracleCall("generate", FALSE)>>
          /\ Raise("generate")
          /\ loop_outcome' = "raised"
          /\ UNCHANGED <<cypher, pruned_schema, attempt, retries>>
       \/ \E ps \in PrunedSchemas, d \in Drafts :
          /\ oracle_calls' = oracle_calls \o
                 <<[call |-> "prune", ok |-> TRUE, input_schema |-> full_schema,
                    pruned |-> ps],
                   [call |-> "generate", ok |-> TRUE, draft |-> d]>>
          /\ pruned_schema' = ps
          /\ cypher' = generated_query(d)
          /\ attempt' = 0
          /\ retries' = << >>
          /\ loop_outcome' = "running"
          /\ pc' = "validate"
          /\ UNCHANGED <<caught, outbox>>
    /\ UNCHANGED <<msg, question, full_schema, uncaught, reply, retry_info, last_error>>
    /\ UNCHANGED <<validated, repair_args, executed, catalog_calls>>
    /\ UNCHANGED outside_handler

\* the loop leaves through break or through the end of range(max_retries): main.py:86
LoopReturns(outcome) ==
    /\ loop_outcome' = outcome
    /\ pc' = "execute"

ValidationCall(q, ok, err) == [query |-> q, ok |-> ok, error |-> err]

validate_succeeds_no_break ==
    /\ pc = "validate"
    /\ validated' = Append(validated, ValidationCall(cypher, TRUE, ""))
    /\ retries' = Append(retries, [new_retry_info(attempt) EXCEPT !.status = "success"])
    /\ attempt' = attempt + 1
    /\ IF attempt + 1 < max_retries
       THEN pc' = "validate" /\ UNCHANGED loop_outcome
       ELSE LoopReturns("success")
    /\ UNCHANGED <<msg, question, full_schema, pruned_schema, cypher, retry_info,
                   last_error, caught, uncaught, outbox, reply>>
    /\ UNCHANGED <<oracle_calls, repair_args, executed, catalog_calls>>
    /\ UNCHANGED outside_handler

\* main.py:48-63: EXPLAIN succeeds
ValidateSucceeds ==
    /\ pc = "validate"
    /\ validated' = Append(validated, ValidationCall(cypher, TRUE, ""))
    /\ retries' = Append(retries, [new_retry_info(attempt) EXCEPT !.status = "success"])
    /\ LoopReturns("success")
    /\ UNCHANGED <<msg, question, full_schema, pruned_schema, cypher, attempt, retry_info,
                   last_error, caught, uncaught, outbox, reply>>
    /\ UNCHANGED <<oracle_calls, repair_args, executed, catalog_calls>>
    /\ UNCHANGED outside_handler

validate_fails_raise_at_ceiling ==
    /\ pc = "validate"
    /\ \E e \in ErrorTexts :
        /\ validated' = Append(validated, ValidationCall(cypher, FALSE, e))
        /\ last_error' = e
        /\ IF is_last_attempt(attempt)
           THEN /\ Raise("validate")
                /\ loop_outcome' = "raised"
                /\ UNCHANGED <<retries, retry_info>>
           ELSE /\ retry_info' = [new_retry_info(attempt) EXCEPT !.status = "failed"]
                /\ pc' = "repair"
                /\ UNCHANGED <<retries, loop_outcome, caught, outbox>>
    /\ UNCHANGED <<msg, question, full_schema, pruned_schema, cypher, attempt,
                   uncaught, reply>>
    /\ UNCHANGED <<oracle_calls, repair_args, executed, catalog_calls>>
    /\ UNCHANGED outside_handler

\* main.py:48-54, 64-75: EXPLAIN raises
ValidateFails ==
    /\ pc = "validate"
    /\ \E e \in ErrorTexts :
        /\ validated' = Append(validated, ValidationCall(cypher, FALSE, e))
        /\ last_error' = e
        /\ IF is_last_attempt(attempt)
           THEN /\ retries' = Append(retries, [new_retry_info(attempt) EXCEPT !.status = "failed"])
                /\ LoopReturns("exhausted")
                /\ UNCHANGED retry_info
           ELSE /\ retry_info' = [new_retry_info(attempt) EXCEPT !.status = "failed"]
                /\ pc' = "repair"
                /\ UNCHANGED <<retries, loop_outcome>>
    /\ UNCHANGED <<msg, question, full_schema, pruned_schema, cypher, attempt,
                   caught, uncaught, outbox, reply>>
    /\ UNCHANGED <<oracle_calls, repair_args, executed, catalog_calls>>
    /\ UNCHANGED outside_handler

RepairArgs(q, invalid, err, schema, full) ==
    [question |-> q, invalid_query |-> invalid, error_message |-> err,
     schema |-> schema, full_schema |-> full]

repair_call_full_schema_twice(q, invalid, err, schema, full) ==
    RepairArgs(q, invalid, err, full, full)

\* main.py:78: the arguments of repair_cypher(question, cypher, str(e), pruned_schema,
\* full_schema)
repair_call(q, invalid, err, schema, full) == RepairArgs(q, invalid, err, schema, full)

repair_without_append ==
    /\ pc = "repair"
    /\ repair_args' = Append(repair_args,
           repair_call(question, cypher, last_error, pruned_schema, full_schema))
    /\ \/ /\ oracle_calls' = Append(oracle_calls, OracleCall("repair", FALSE))
          /\ Raise("repair")
          /\ loop_outcome' = "raised"
          /\ UNCHANGED <<cypher, attempt, retries, retry_info>>
       \/ \E d \in Drafts :
          /\ oracle_calls' = Append(oracle_calls, [call |-> "repair", ok |-> TRUE, draft |-> d])
          /\ cypher' = repaired_query(d)
          /\ UNCHANGED retries
          /\ retry_info' = NoRetryInfo
          /\ attempt' = attempt + 1
          /\ IF attempt + 1 < max_retries
             THEN pc' = "validate" /\ UNCHANGED loop_outcome
             ELSE LoopReturns("exhausted")
          /\ UNCHANGED <<caught, outbox>>
    /\ UNCHANGED <<msg, question, full_schema, pruned_schema, last_error, uncaught, reply>>
    /\ UNCHANGED <<validated, executed, catalog_calls>>
    /\ UNCHANGED outside_handler

\* main.py:76-84 with text2cypher.py:249-258: repair_cypher, then the next iteration
Repair ==
    /\ pc = "repair"
    /\ repair_args' = Append(repair_args,
           repair_call(question, cypher, last_error, pruned_schema, full_schema))
    /\ \/ \* _repair raises: the exception leaves the except block and the loop
          /\ oracle_calls' = Append(oracle_calls, OracleCall("repair", FALSE))
          /\ Raise("repair")
          /\ loop_outcome' = "raised"
          /\ UNCHANGED <<cypher, attempt, retries, retry_info>>
       \/ \E d \in Drafts :
          /\ oracle_calls' = Append(oracle_calls, [call |-> "repair", ok |-> TRUE, draft |-> d])
          /\ cypher' = repaired_query(d)
          /\ retries' = Append(retries, [retry_info EXCEPT !.repaired = TRUE])
          /\ retry_info' = NoRetryInfo
          /\ attempt' = attempt + 1
          /\ IF attempt + 1 < max_retries
             THEN pc' = "validate" /\ UNCHANGED loop_outcome
             ELSE LoopReturns("exhausted")
          /\ UNCHANGED <<caught, outbox>>
    /\ UNCHANGED <<msg, question, full_schema, pruned_schema, last_error, uncaught, reply>>
    /\ UNCHANGED <<validated, executed, catalog_calls>>
    /\ UNCHANGED outside_handler

\* main.py:108-118 and the json.dumps of main.py:120
Execute ==
    /\ pc = "execute"
    /\ executed' = Append(executed, cypher)
    /\ \/ Raise("execute")
       \/ \E res \in ResultSets :
            IF JsonSerializable(res)
            THEN /\ outbox' = ResultPayload(question, cypher, res, retries)
                 /\ pc' = "respond"
                 /\ UNCHANGED caught
            ELSE Raise("json.dumps")
    /\ UNCHANGED <<msg, question, full_schema, uncaught, reply>>
    /\ UNCHANGED loop_vars
    /\ UNCHANGED <<oracle_calls, validated, repair_args, catalog_calls>>
    /\ UNCHANGED outside_handler

\* main.py:120: msg.respond(result)
Respond ==
    /\ pc = "respond"
    /\ \/ /\ reply' = outbox
          /\ pc' = "done"
          /\ UNCHANGED <<caught, outbox>>
       \/ /\ Raise("respond")
          /\ UNCHANGED reply
    /\ UNCHANGED <<msg, question, full_schema, uncaught>>
    /\ UNCHANGED loop_vars
    /\ UNCHANGED log_vars
    /\ UNCHANGED outside_handler

\* main.py:122-124: msg.respond({"error": str(e)})
RespondError ==
    /\ pc = "respond_error"
    /\ pc' = "done"
    /\ \/ /\ reply' = outbox
          /\ UNCHANGED uncaught
       \/ /\ uncaught' = "respond"
          /\ UNCHANGED reply
    /\ UNCHANGED <<msg, question, full_schema, caught, outbox>>
    /\ UNCHANGED loop_vars
    /\ UNCHANGED log_vars
    /\ UNCHANGED outside_handler

(***************************************************************************)
(* post_process_cypher and its rules as functions of one input query: the  *)
(* text up to and including the RETURN keyword, the items of the RETURN    *)
(* clause, and what follows them                                           *)
(***************************************************************************)
\* how many items the RETURN clause of an input query has at most
MaxReturnItems == 2

MatchParts ==
    { <<"RETURN", " ">>,
      \* MATCH (s:Scholar)-[:WON]->(p:Prize)
      <<"MATCH", " ", "(", "s", ":", "Scholar", ")", "-[", ":", "WON", "]->",
        "(", "p", ":", "Prize", ")", " ", "RETURN", " ">>,
      \* MATCH (name:City)
      <<"MATCH", " ", "(", "name", ":", "City", ")", " ", "return", " ">>,
      \* MATCH ( s : Scholar ) WHERE TOLOWER (s.gender) = 'limit 5'
      <<"MATCH", " ", "(", " ", "s", " ", ":", " ", "Scholar", " ", ")", " ", "WHERE", " ",
        "TOLOWER", " ", "(", "s", ".", "gender", ")", " ", "=", " ", "'limit 5'", " ",
        "RETURN", " ">>,
      \* MATCH (p:Prize) WHERE toLower( p.category) = toLower(p.motivation + 'physics')
      <<"MATCH", " ", "(", "p", ":", "Prize", ")", " ", "WHERE", " ",
        "toLower", "(", " ", "p", ".", "category", ")", " ", "=", " ",
        "toLower", "(", "p", ".", "motivation", " ", "+", " ", "'physics'", ")", " ",
        "Return", " ">> }

ReturnItems ==
    { <<"s">>,
      <<"p", ".", "category">>,
      <<"name">>,
      <<"count", "(", "p", ")">>,
      <<"toLower", "(", "s", ".", "name", ")">>,
      <<"p", ".", "awardYear">> }

Tails ==
    { << >>,
      <<";">>,
      <<" ", ";", " ", " ">>,
      <<" ", "LIMIT", " ", "50">>,
      <<" ", "limit", " ", "5", ";">>,
      <<" ", "LIMIT", " ", "$", "n">>,
      <<" ", "ORDER", " ", "BY", " ", "s", ".", "name", " ", "SKIP", " ", "5">> }

\* the items joined by ", "
RECURSIVE JoinItems(_)
JoinItems(items) ==
    IF Len(items) = 0 THEN << >>
    ELSE IF Len(items) = 1 THEN items[1]
    ELSE items[1] \o <<",", " ">> \o JoinItems(Tail(items))

ItemLists == UNION {[1..n -> ReturnItems] : n \in 1..MaxReturnItems}

InputQueries ==
    {m \o JoinItems(items) \o t : m \in MatchParts, items \in ItemLists, t \in Tails}

Rules == {"post_process_cypher", "ExpandReturn", "FoldCase"}

ApplyRule(rule, q) ==
    CASE rule = "post_process_cypher" -> post_process_cypher(q)
      [] rule = "ExpandReturn" -> ExpandReturn(q)
      [] rule = "FoldCase" -> FoldCase(q)
      [] OTHER -> q

PostProcessIdle ==
    /\ pp_rule = "none"
    /\ pp_in = << >>
    /\ pp_applied = 0
    /\ pp_once = << >>
    /\ pp_twice = << >>

PostProcessInputs ==
    /\ pp_rule \in Rules
    /\ pp_in \in InputQueries
    /\ pp_applied = 0
    /\ pp_once = << >>
    /\ pp_twice = << >>

\* the function is applied to the input
Apply ==
    /\ pp_applied = 0
    /\ pp_once' = ApplyRule(pp_rule, pp_in)
    /\ pp_applied' = 1
    /\ UNCHANGED <<pp_rule, pp_in, pp_twice>>
    /\ UNCHANGED <<handler_vars, retriever_vars, api_vars>>

\* the function is applied to its own output
ApplyAgain ==
    /\ pp_applied = 1
    /\ pp_twice' = ApplyRule(pp_rule, pp_once)
    /\ pp_applied' = 2
    /\ UNCHANGED <<pp_rule, pp_in, pp_once>>
    /\ UNCHANGED <<handler_vars, retriever_vars, api_vars>>

(***************************************************************************)
(* exemplars.py: the corpus, FewShotRetriever, top_k and add_exemplar      *)
(*                                                                         *)
(* An exemplar is named by its insertion number: EXEMPLARS is <<1, .., n>>. *)
(* The repository seeds the list with five pairs; the list is data, and    *)
(* two seed pairs are kept here.                                           *)
(***************************************************************************)
SeedExemplars == <<1, 2>>

\* how many add_exemplar calls are made
MaxAdds == 2

\* the values a cosine similarity takes, from no shared term upwards
SimValues == {0, 1, 2}

Writers == {"w1", "w2"}

Readers == {"r1"}

\* exemplars.py:43-46: self.exemplars is the list object it was given, which
\* is always the module's EXEMPLARS; the matrix has one row per exemplar the
\* list holds when fit_transform runs
FewShotRetriever(exemplars) == [exemplars |-> "EXEMPLARS", matrix |-> exemplars]

\* len(self.exemplars): the list behind the reference, as it is now
CorpusOf(self) == EXEMPLARS

\* exemplars.py:49-50: the similarities of a question to the rows of the matrix
Similarities(self) == [1..Len(self.matrix) -> SimValues]

\* sims.argsort(): the indices in ascending order of similarity; the default
\* sort is not stable, so equal similarities come in any order
ArgsortOutcomes(sims) ==
    {order \in Permutations(1..Len(sims)) :
        \A i, j \in 1..Len(sims) : i < j => sims[order[i]] <= sims[order[j]]}

Reversed(seq) == [i \in 1..Len(seq) |-> seq[Len(seq) + 1 - i]]

top_k_index_first_k(self, order, k) ==
    IF k > Len(order)
    THEN [ok |-> FALSE, items |-> << >>]
    ELSE [ok |-> TRUE,
          items |-> [i \in 1..k |-> CorpusOf(self)[Reversed(order)[i]]]]

\* exemplars.py:51-52: order = ...[::-1][:k]; [self.exemplars[i] for i in order]
top_k(self, order, k) ==
    LET n == IF k < Len(order) THEN k ELSE Len(order)
    IN  [ok |-> TRUE,
         items |-> [i \in 1..n |-> CorpusOf(self)[Reversed(order)[i]]]]

NoTopKCall == [called |-> FALSE, k |-> 0, sims |-> << >>, ok |-> TRUE, items |-> << >>,
               rows |-> 0, corpus |-> << >>]

TopKCall(self, k, sims, order) ==
    [called |-> TRUE, k |-> k, sims |-> sims, ok |-> top_k(self, order, k).ok,
     items |-> top_k(self, order, k).items, rows |-> Len(self.matrix),
     corpus |-> CorpusOf(self)]

RetrieverInit ==
    /\ EXEMPLARS = SeedExemplars
    /\ retriever = [exemplars |-> "EXEMPLARS", matrix |-> SeedExemplars]
    /\ adds = 0
    /\ writer_pc = [w \in Writers |-> "idle"]
    /\ writer_built = [w \in Writers |-> [exemplars |-> "EXEMPLARS", matrix |-> << >>]]
    /\ reader_pc = [r \in Readers |-> "idle"]
    /\ reader_self = [r \in Readers |-> [exemplars |-> "EXEMPLARS", matrix |-> << >>]]
    /\ top_k_call = NoTopKCall

\* exemplars.py:78-82, run from start to end with nothing in between
AddExemplar ==
    /\ adds < MaxAdds
    /\ adds' = adds + 1
    /\ EXEMPLARS' = Append(EXEMPLARS, Len(EXEMPLARS) + 1)
    /\ retriever' = [exemplars |-> "EXEMPLARS", matrix |-> EXEMPLARS']
    /\ UNCHANGED <<writer_pc, writer_built, reader_pc, reader_self, top_k_call>>
    /\ UNCHANGED <<handler_vars, pp_vars, api_vars>>

\* exemplars.py:48-52 on the module's _retriever (as get_fewshot_block does at
\* exemplars.py:73), run from start to end with nothing in between
TopK ==
    /\ ~top_k_call.called
    /\ \E k \in 1..(Len(retriever.matrix) + 1) :
       \E sims \in Similarities(retriever) :
       \E order \in ArgsortOutcomes(sims) :
          top_k_call' = TopKCall(retriever, k, sims, order)
    /\ UNCHANGED <<EXEMPLARS, retriever, adds, writer_pc, writer_built, reader_pc, reader_self>>
    /\ UNCHANGED <<handler_vars, pp_vars, api_vars>>

\* exemplars.py:74: the caller formats the examples it got and goes on
TopKReturn ==
    /\ top_k_call.called
    /\ top_k_call' = NoTopKCall
    /\ UNCHANGED <<EXEMPLARS, retriever, adds, writer_pc, writer_built, reader_pc, reader_self>>
    /\ UNCHANGED <<handler_vars, pp_vars, api_vars>>

\* exemplars.py:81: EXEMPLARS.append(...)
WriterAppend(w) ==
    /\ writer_pc[w] = "idle"
    /\ adds < MaxAdds
    /\ adds' = adds + 1
    /\ EXEMPLARS' = Append(EXEMPLARS, Len(EXEMPLARS) + 1)
    /\ writer_pc' = [writer_pc EXCEPT ![w] = "appended"]
    /\ UNCHANGED <<retriever, writer_built, reader_pc, reader_self, top_k_call>>
    /\ UNCHANGED <<handler_vars, pp_vars, api_vars>>

\* exemplars.py:82, right-hand side: FewShotRetriever(EXEMPLARS)
WriterBuild(w) ==
    /\ writer_pc[w] = "appended"
    /\ writer_built' = [writer_built EXCEPT ![w] = FewShotRetriever(EXEMPLARS)]
    /\ writer_pc' = [writer_pc EXCEPT ![w] = "built"]
    /\ UNCHANGED <<EXEMPLARS, retriever, adds, reader_pc, reader_self, top_k_call>>
    /\ UNCHANGED <<handler_vars, pp_vars, api_vars>>

\* exemplars.py:82, the assignment to the global _retriever; add_exemplar returns
WriterSwap(w) ==
    /\ writer_pc[w] = "built"
    /\ retriever' = writer_built[w]
    /\ writer_pc' = [writer_pc EXCEPT ![w] = "idle"]
    /\ UNCHANGED <<EXEMPLARS, adds, writer_built, reader_pc, reader_self, top_k_call>>
    /\ UNCHANGED <<handler_vars, pp_vars, api_vars>>

\* exemplars.py:73: _retriever is read and top_k is entered on it
ReaderLoad(r) ==
    /\ reader_pc[r] = "idle"
    /\ reader_self' = [reader_self EXCEPT ![r] = retriever]
    /\ reader_pc' = [reader_pc EXCEPT ![r] = "loaded"]
    /\ UNCHANGED <<EXEMPLARS, retriever, adds, writer_pc, writer_built, top_k_call>>
    /\ UNCHANGED <<handler_vars, pp_vars, api_vars>>

\* exemplars.py:49-52 on the retriever the call was entered on
ReaderRank(r) ==
    /\ reader_pc[r] = "loaded"
    /\ \E k \in 1..(Len(reader_self[r].matrix) + 1) :
       \E sims \in Similarities(reader_self[r]) :
       \E order \in ArgsortOutcomes(sims) :
          top_k_call' = TopKCall(reader_self[r], k, sims, order)
    /\ reader_pc' = [reader_pc EXCEPT ![r] = "ranked"]
    /\ UNCHANGED <<EXEMPLARS, retriever, adds, writer_pc, writer_built, reader_self>>
    /\ UNCHANGED <<handler_vars, pp_vars, api_vars>>

\* exemplars.py:74: top_k has returned; the caller formats the examples
ReaderReturn(r) ==
    /\ reader_pc[r] = "ranked"
    /\ reader_pc' = [reader_pc EXCEPT ![r] = "idle"]
    /\ top_k_call' = NoTopKCall
    /\ UNCHANGED <<EXEMPLARS, retriever, adds, writer_pc, writer_built, reader_self>>
    /\ UNCHANGED <<handler_vars, pp_vars, api_vars>>

(***************************************************************************)
(* question-api/src/main.py: answer_question (POST /question), with the    *)
(* message_handler of answer-service/src/main.py that answers its second   *)
(* request.  A cache key is the SHA-256 of a question, written here as the *)
(* question itself; one POST is handled at a time.                         *)
(***************************************************************************)
ApiQuestions == {"q1", "q2"}

\* None: no value, no reply
NoValue == "<none>"

\* the payloads the query service replies with (query-service main.py:120, 124)
QueryReplies == {"result_payload", "error_payload"}

\* result.response of the answer generator: prose, or text that happens to be JSON
LlmResponses ==
    {"Marie Curie won.", "42", "{\"answer\": \"Marie Curie\"}", "{\"answer\": \"\"}", "{}"}

\* answer-service main.py:71
error_msg == "Sorry, I encountered an error while generating the answer."

\* json.loads(answer_data) and answer_response_json.get("answer", "")
\* (question-api main.py:107-108): ok is FALSE when either raises
json_loads_answer(text) ==
    CASE text = "{\"answer\": \"Marie Curie\"}" -> [ok |-> TRUE, answer |-> "Marie Curie"]
      [] text = "{\"answer\": \"\"}" -> [ok |-> TRUE, answer |-> ""]
      [] text = "{}" -> [ok |-> TRUE, answer |-> ""]
      [] OTHER -> [ok |-> FALSE, answer |-> NoValue]

NoResponse == [status |-> 0, detail |-> "", answer |-> NoValue, cached |-> FALSE]

\* raise HTTPException(status_code=500, detail=...)
HTTPException(detail) == [status |-> 500, detail |-> detail, answer |-> NoValue, cached |-> FALSE]

\* the dict answer_question returns
OkResponse(a, cached) == [status |-> 200, detail |-> "", answer |-> a, cached |-> cached]

NatsRequest(to, ok) == [to |-> to, ok |-> ok]

after_answer_always_store(ok) == "store"

\* question-api main.py:113-117: an exception of step 2 leaves answer_question
after_answer(ok) == IF ok THEN "store" ELSE "done"

ApiInit ==
    /\ api_pc = "idle"
    /\ api_question = NoValue
    /\ memcache = [q \in ApiQuestions |-> NoValue]
    /\ cached_value = NoValue
    /\ data = NoValue
    /\ answer = NoValue
    /\ response = NoResponse
    /\ api_requests = << >>
    /\ mem_sets = << >>
    /\ generated = NoValue

\* question-api main.py:58-73: a POST arrives; the cache is looked up
Lookup ==
    /\ api_pc \in {"idle", "done"}
    /\ \E q \in ApiQuestions :
        /\ api_question' = q
        /\ \/ \* mem_client.get raises: the exception leaves answer_question
              /\ cached_value' = NoValue
              /\ response' = HTTPException("Internal Server Error")
              /\ api_pc' = "done"
           \/ /\ cached_value' = memcache[q]
              /\ IF memcache[q] \notin {NoValue, ""}
                 THEN /\ response' = OkResponse(memcache[q], TRUE)
                      /\ api_pc' = "done"
                 ELSE /\ response' = NoResponse
                      /\ api_pc' = "query"
    /\ data' = NoValue
    /\ answer' = NoValue
    /\ api_requests' = << >>
    /\ mem_sets' = << >>
    /\ generated' = NoValue
    /\ UNCHANGED memcache
    /\ UNCHANGED <<handler_vars, pp_vars, retriever_vars>>

\* question-api main.py:79-96: step 1, the request to the query service
RequestQuery ==
    /\ api_pc = "query"
    /\ \/ \* the request times out or the reply cannot be parsed
          /\ api_requests' = Append(api_requests, NatsRequest("query", FALSE))
          /\ response' = HTTPException("Failed to query database")
          /\ api_pc' = "done"
          /\ UNCHANGED data
       \/ \E d \in QueryReplies :
          /\ api_requests' = Append(api_requests, NatsRequest("query", TRUE))
          /\ data' = d
          /\ api_pc' = "answer"
          /\ UNCHANGED response
    /\ UNCHANGED <<api_question, memcache, cached_value, answer, mem_sets, generated>>
    /\ UNCHANGED <<handler_vars, pp_vars, retriever_vars>>

\* what answer_question does with the reply of the answer service
\* (question-api main.py:106-115)
ParseAnswer(text) ==
    /\ api_requests' = Append(api_requests, NatsRequest("answer", json_loads_answer(text).ok))
    /\ api_pc' = after_answer(json_loads_answer(text).ok)
    /\ IF json_loads_answer(text).ok
       THEN answer' = json_loads_answer(text).answer /\ UNCHANGED response
       ELSE response' = HTTPException("Failed to generate answer") /\ UNCHANGED answer

\* question-api main.py:98-115: step 2, the request to the answer service, which
\* its message_handler (answer-service main.py:40-72) answers
RequestAnswer ==
    /\ api_pc = "answer"
    /\ \/ \* no reply arrives in time
          /\ api_requests' = Append(api_requests, NatsRequest("answer", FALSE))
          /\ api_pc' = after_answer(FALSE)
          /\ response' = HTTPException("Failed to generate answer")
          /\ UNCHANGED <<answer, generated>>
       \/ \* answer-service main.py:42-49, 59, 69-72: the payload has no question (an
          \* error payload), or the generator raises
          /\ ParseAnswer(error_msg)
          /\ UNCHANGED generated
       \/ \* answer-service main.py:59-67: an answer is generated and sent
          /\ data = "result_payload"
          /\ \E text \in LlmResponses :
              /\ generated' = text
              /\ ParseAnswer(text)
    /\ UNCHANGED <<api_question, memcache, cached_value, data, mem_sets>>
    /\ UNCHANGED <<handler_vars, pp_vars, retriever_vars>>

\* question-api main.py:117-126: step 3, mem_client.set, and the return
CacheAnswer ==
    /\ api_pc = "store"
    /\ \/ /\ memcache' = [memcache EXCEPT ![api_question] = answer]
          /\ mem_sets' = Append(mem_sets, [key |-> api_question, value |-> answer])
       \/ \* mem_client.set raises: logged, nothing stored
          /\ UNCHANGED <<memcache, mem_sets>>
    /\ response' = OkResponse(answer, FALSE)
    /\ api_pc' = "done"
    /\ UNCHANGED <<api_question, cached_value, data, answer, api_requests, generated>>
    /\ UNCHANGED <<handler_vars, pp_vars, retriever_vars>>

\* memcached drops a value (eviction, expiry or restart)
Evict ==
    /\ \E q \in ApiQuestions :
        /\ memcache[q] # NoValue
        /\ memcache' = [memcache EXCEPT ![q] = NoValue]
    /\ UNCHANGED <<api_pc, api_question, cached_value, data, answer, response,
                   api_requests, mem_sets, generated>>
    /\ UNCHANGED <<handler_vars, pp_vars, retriever_vars>>

\* the steps message_handler takes by itself once a message has arrived
HandlerStep ==
    \/ RespondMissing
    \/ OpenDatabase
    \/ GetSchema
    \/ Generate
    \/ ValidateSucceeds
    \/ ValidateFails
    \/ Repair
    \/ Execute
    \/ Respond
    \/ RespondError

Next ==
    \/ Receive
    \/ RespondMissing
    \/ OpenDatabase
    \/ GetSchema
    \/ Generate
    \/ ValidateSucceeds
    \/ ValidateFails
    \/ Repair
    \/ Execute
    \/ Respond
    \/ RespondError

Init == HandlerInit /\ PostProcessIdle /\ RetrieverInit /\ ApiInit

Spec == Init /\ [][Next]_vars

\* every call message_handler makes returns or raises
FairSpec == Spec /\ WF_vars(HandlerStep)

\* post_process_cypher and its rules on every input query
PostProcessInit == HandlerInit /\ PostProcessInputs /\ RetrieverInit /\ ApiInit

PostProcessNext ==
    \/ Apply
    \/ ApplyAgain

PostProcessSpec == PostProcessInit /\ [][PostProcessNext]_vars

\* the retriever used by one caller at a time
RetrieverNext ==
    \/ AddExemplar
    \/ TopK
    \/ TopKReturn

RetrieverSpec == Init /\ [][RetrieverNext]_vars

\* add_exemplar and top_k called from several threads
ConcurrentNext ==
    \/ \E w \in Writers : WriterAppend(w)
    \/ \E w \in Writers : WriterBuild(w)
    \/ \E w \in Writers : WriterSwap(w)
    \/ \E r \in Readers : ReaderLoad(r)
    \/ \E r \in Readers : ReaderRank(r)
    \/ \E r \in Readers : ReaderReturn(r)

ConcurrentSpec == Init /\ [][ConcurrentNext]_vars

\* POST /question, one request after the other
ApiNext ==
    \/ Lookup
    \/ RequestQuery
    \/ RequestAnswer
    \/ CacheAnswer
    \/ Evict

ApiSpec == Init /\ [][ApiNext]_vars

(***************************************************************************)
(* Observations over one request                                           *)
(***************************************************************************)
Last(seq) == seq[Len(seq)]

CallCount(name) == Cardinality({i \in 1..Len(oracle_calls) : oracle_calls[i].call = name})

\* the drafts the oracle delivered (generate first, then the repairs), in order
DeliveredDrafts ==
    LET got == SelectSeq(oracle_calls, LAMBDA c : c.ok /\ c.call \in {"generate", "repair"})
    IN  [i \in 1..Len(got) |-> got[i].draft]

AllValidationsFailed == \A i \in 1..Len(validated) : ~validated[i].ok

SomeValidationSucceeded == \E i \in 1..Len(validated) : validated[i].ok

RepairRaised == \E i \in 1..Len(oracle_calls) : oracle_calls[i] = OracleCall("repair", FALSE)

LoopReturned == loop_outcome \in {"success", "exhausted"}

(***************************************************************************)
(* Properties                                                              *)
(***************************************************************************)
\* C1: whatever the validator answers, self_refinement_loop makes one initial
\* generation and at most 3 repair invocations, and it terminates.
C1_LoopTerminatesWithinCeiling ==
    /\ [](/\ CallCount("generate") <= 1
          /\ Len(repair_args) <= 3
          /\ (loop_outcome # "none" => CallCount("prune") = 1)
          /\ (LoopReturned => CallCount("generate") = 1))
    /\ (loop_outcome = "running") ~> (loop_outcome # "running")

C1_Witness ==
    /\ loop_outcome = "exhausted"
    /\ CallCount("generate") = 1
    /\ Len(repair_args) = 2
    /\ pc = "execute"

\* C2 as stated: when every validation fails the repair oracle is invoked exactly
\* 3 times before the loop returns exhausted.
C2_ThreeRepairsBeforeExhaustion ==
    loop_outcome = "exhausted" => Len(repair_args) = 3

\* C2 as amended: when every validation fails the loop returns exhausted after
\* exactly 3 validations and exactly 2 repair invocations; exhaustion is reached
\* only when the number of validations equals the ceiling of 3.
C2_TwoRepairsBeforeExhaustion ==
    /\ loop_outcome = "exhausted" =>
          /\ Len(validated) = 3
          /\ AllValidationsFailed
          /\ Len(repair_args) = 2
          /\ CallCount("repair") = 2
    /\ (LoopReturned /\ AllValidationsFailed) => loop_outcome = "exhausted"

C2_Witness ==
    /\ loop_outcome = "exhausted"
    /\ Len(repair_args) = 2
    /\ Len(validated) = 3
    /\ pc = "respond"

\* C3: when every validation fails, the returned trace has exactly 3 retries
\* entries, numbered 1, 2, 3 in that order, each with status failed.
C3_ThreeFailedRetries ==
    (LoopReturned /\ AllValidationsFailed) =>
        /\ Len(retries) = 3
        /\ \A i \in 1..Len(retries) :
              /\ retries[i].attempt = i
              /\ retries[i].status = "failed"

C3_Witness ==
    /\ LoopReturned
    /\ AllValidationsFailed
    /\ Len(retries) = 3
    /\ retries[3].attempt = 3
    /\ retries[3].status = "failed"

\* C4: a successful validation makes the loop return the query that passed it,
\* with a trace whose last retries entry is success, and nothing is generated,
\* repaired or validated afterwards in the same request.
C4_SuccessReturnsValidatedQuery ==
    /\ [](SomeValidationSucceeded => loop_outcome = "success")
    /\ [](loop_outcome = "success" =>
            /\ Len(validated) > 0
            /\ Last(validated).ok
            /\ Last(validated).query = cypher
            /\ Len(retries) = Len(validated)
            /\ Last(retries).status = "success"
            /\ (reply.type = "result" => reply.cypher = cypher /\ reply.timings = retries))
    /\ [][(loop_outcome = "success" /\ loop_outcome' = "success") =>
            /\ oracle_calls' = oracle_calls
            /\ validated' = validated
            /\ repair_args' = repair_args
            /\ cypher' = cypher
            /\ retries' = retries]_vars

C4_Witness ==
    /\ loop_outcome = "success"
    /\ Len(validated) = 2
    /\ Last(retries).status = "success"
    /\ reply.type = "result"

\* C5: at the retry ceiling the loop returns the query whose validation failed
\* last; in every outcome the returned query was submitted to the validator.
C5_ReturnedQueryWasValidated ==
    /\ LoopReturned =>
          /\ Len(validated) > 0
          /\ cypher = Last(validated).query
          /\ \A i \in 1..Len(executed) : executed[i] = Last(validated).query
    /\ loop_outcome = "exhausted" => ~Last(validated).ok

C5_Witness ==
    /\ loop_outcome = "exhausted"
    /\ ~Last(validated).ok
    /\ cypher = Last(validated).query
    /\ cypher # validated[1].query
    /\ executed = <<cypher>>

\* C6: every query submitted to validation, and the query executed in the end, is
\* post_process_cypher of the oracle draft it comes from: the i-th validation gets
\* the normalised i-th draft (initial generation, then the repairs).
C6_EveryQueryIsNormalised ==
    /\ Len(validated) <= Len(DeliveredDrafts)
    /\ \A i \in 1..Len(validated) :
          validated[i].query = post_process_cypher(DeliveredDrafts[i])
    /\ \A i \in 1..Len(executed) :
          executed[i] = post_process_cypher(Last(DeliveredDrafts))
    /\ loop_outcome \in {"running", "success", "exhausted"} =>
          cypher = post_process_cypher(Last(DeliveredDrafts))

C6_Witness ==
    /\ Len(validated) = 3
    /\ \A i \in 1..3 : validated[i].query # DeliveredDrafts[i]
    /\ Len(executed) = 1
    /\ executed[1] # Last(DeliveredDrafts)

\* C7 as stated: a repair step whose oracle call fails is absorbed as one failed
\* repair attempt; the loop still returns a query and trace and the request is
\* not aborted.
C7_RepairFailureAbsorbed ==
    RepairRaised =>
        /\ loop_outcome \in {"running", "success", "exhausted"}
        /\ caught # "repair"
        /\ reply.type # "error"

\* C8 as stated: a well-formed request ends in an error payload only when the
\* database or its schema could not be read or the transport failed; a failure
\* inside generation or repair, or a draft still invalid at the ceiling, never does.
C8_ErrorOnlyFromSchemaOrTransport ==
    (msg.kind = "ok" /\ reply.type = "error") =>
        caught \in {"database", "schema", "respond"}

\* C9 as stated: every handled message gets a reply, either a result payload or an
\* explicit error payload.
C9_EveryMessageIsAnswered ==
    pc = "done" => reply.type \in {"result", "error"}

\* C10: at exhaustion the loop returns its last query and trace without raising,
\* and message_handler executes the returned query exactly once, whether or not
\* the last validation succeeded.
C10_ExhaustedQueryIsExecutedOnce ==
    /\ (Len(validated) = max_retries /\ AllValidationsFailed) =>
          /\ loop_outcome = "exhausted"
          /\ caught \notin {"validate", "repair"}
    /\ LoopReturned =>
          IF pc = "execute" THEN executed = << >> ELSE executed = <<cypher>>
    /\ ~LoopReturned => executed = << >>

C10_Witness ==
    /\ loop_outcome = "exhausted"
    /\ ~Last(validated).ok
    /\ executed = <<cypher>>
    /\ pc = "done"
    /\ reply.type = "result"

\* a catalogue query of get_schema_dict raised
CatalogQueryFailed == \E i \in 1..Len(catalog_calls) : ~catalog_calls[i].ok

\* C11: if a catalogue query fails during schema extraction, get_schema_dict
\* propagates the failure without retrying (the failed query is the last one
\* issued), no oracle call, validation or execution takes place for the request,
\* and the error payload is what message_handler hands to msg.respond and what the
\* caller gets when the transport delivers the reply.
C11_SchemaFailurePropagates ==
    CatalogQueryFailed =>
        /\ \A i \in 1..Len(catalog_calls) : ~catalog_calls[i].ok => i = Len(catalog_calls)
        /\ \E cat \in Catalogs :
              /\ Len(catalog_calls) <= Len(SchemaQueries(cat))
              /\ \A i \in 1..Len(catalog_calls) : catalog_calls[i].call = SchemaQueries(cat)[i]
        /\ oracle_calls = << >>
        /\ validated = << >>
        /\ repair_args = << >>
        /\ executed = << >>
        /\ full_schema = NoSchema
        /\ caught = "schema"
        /\ outbox = ErrorPayload("schema")
        /\ pc \in {"respond_error", "done"}
        /\ reply \in {NoPayload, ErrorPayload("schema")}
        /\ (pc = "done" /\ uncaught = "none") => reply = ErrorPayload("schema")

C11_Witness ==
    /\ CatalogQueryFailed
    /\ Len(catalog_calls) > 2
    /\ pc = "done"
    /\ reply = ErrorPayload("schema")

\* C12 as stated: for every input query q,
\* post_process_cypher(post_process_cypher(q)) equals post_process_cypher(q).
C12_PostProcessIdempotent ==
    (pp_rule = "post_process_cypher" /\ pp_applied = 2) => pp_twice = pp_once

\* the numbers of the LIMIT <n> clauses of a query, in order, from position i
RECURSIVE LimitNumbersFrom(_, _)
LimitNumbersFrom(q, i) ==
    IF i > Len(q) THEN << >>
    ELSE IF IsLimitTok(q[i]) /\ Tok(q, i + 1) \in WS /\ Tok(q, SkipWS(q, i + 1)) \in NumToks
         THEN <<Tok(q, SkipWS(q, i + 1))>> \o LimitNumbersFrom(q, i + 1)
         ELSE LimitNumbersFrom(q, i + 1)

LimitNumbers(q) == LimitNumbersFrom(q, 1)

EndsWith(q, tail) ==
    Len(q) >= Len(tail) /\ SubSeq(q, Len(q) - Len(tail) + 1, Len(q)) = tail

\* the last token of a query that is no blank is the statement terminator
HasTrailingTerminator(q) == \E i \in 1..Len(q) : q[i] = ";" /\ SkipWS(q, i + 1) > Len(q)

\* C13 as stated: the output of post_process_cypher always contains a LIMIT <n>
\* clause; an input without one gets exactly one LIMIT 100, before a trailing ';'
\* when there is one and at the end otherwise; an input with a LIMIT <n> clause
\* keeps it unchanged and gets no other.
C13_OutputHasLimitClause ==
    (pp_rule = "post_process_cypher" /\ pp_applied >= 1) =>
        /\ LimitNumbers(pp_once) # << >>
        /\ IF LimitNumbers(pp_in) = << >>
           THEN /\ LimitNumbers(pp_once) = <<"100">>
                /\ IF HasTrailingTerminator(pp_in)
                   THEN EndsWith(pp_once, <<" ", "LIMIT", " ", "100", ";">>)
                   ELSE EndsWith(pp_once, <<" ", "LIMIT", " ", "100">>)
           ELSE LimitNumbers(pp_once) = LimitNumbers(pp_in)

\* MATCH (s:Scholar)-[:WON]->(p:Prize) RETURN s, p.category
ScholarPrizeQuery ==
    <<"MATCH", " ", "(", "s", ":", "Scholar", ")", "-[", ":", "WON", "]->",
      "(", "p", ":", "Prize", ")", " ", "RETURN", " ", "s", ",", " ", "p", ".", "category">>

StartsWith(q, head) == Len(q) >= Len(head) /\ SubSeq(q, 1, Len(head)) = head

\* the input declares (s:Scholar) and (p:Prize) and its final RETURN clause is
\* s, p.category; after the clause comes nothing, a terminator or a suffix
\* (ORDER BY, SKIP, LIMIT)
IsScholarPrizeInput(q) == \E t \in Tails : q = ScholarPrizeQuery \o t

\* C14: for a query that declares (s:Scholar) and (p:Prize) and whose final
\* RETURN clause is s, p.category, the return-clause rule projects the bare s to
\* s.knownName and leaves p.category as it is, and so does post_process_cypher,
\* whose case-folding rule then wraps each of the two accesses in toLower( ).
C14_BareScholarProjected ==
    (pp_applied >= 1 /\ IsScholarPrizeInput(pp_in)) =>
        /\ pp_rule = "ExpandReturn" =>
              \E t \in Tails :
                 /\ pp_in = ScholarPrizeQuery \o t
                 /\ pp_once = SubSeq(ScholarPrizeQuery, 1, 19)
                                 \o <<"s", ".", "knownName", ",", " ", "p", ".", "category">>
                                 \o t
        /\ pp_rule = "post_process_cypher" =>
              /\ StartsWith(pp_once,
                     SubSeq(ScholarPrizeQuery, 1, 19)
                        \o <<"toLower", "(", "s", ".", "knownName", ")", ",", " ",
                             "toLower", "(", "p", ".", "category", ")">>)
              /\ Tok(pp_once, 34) \in {" ", ";", "<end>"}

C14_Witness ==
    /\ pp_rule = "post_process_cypher"
    /\ pp_applied = 1
    /\ pp_in = ScholarPrizeQuery
    /\ pp_once = SubSeq(ScholarPrizeQuery, 1, 19)
                    \o <<"toLower", "(", "s", ".", "knownName", ")", ",", " ",
                         "toLower", "(", "p", ".", "category", ")", " ", "LIMIT", " ", "100">>

\* a target (a property access on one of target_props, or a quoted literal)
\* starts at position i
TargetAt(q, i) ==
    \/ Tok(q, i) \in StrLits
    \/ /\ IsWord(Tok(q, i))
       /\ Tok(q, i + 1) = "."
       /\ Tok(q, i + 2) \in target_props

TargetPositions(q) == {i \in 1..Len(q) : TargetAt(q, i)}

\* a toLower call opens at position j: toLower in any letter case, blanks, (
ToLowerOpensAt(q, j) == IsToLowerTok(Tok(q, j)) /\ Tok(q, SkipWS(q, j + 1)) = "("

\* the first position after the ( of the call that opens at j and the blanks
\* that follow it
ArgumentStart(q, j) == SkipWS(q, SkipWS(q, j + 1) + 1)

\* the token at position i is immediately preceded by toLower(
PrecededByToLower(q, i) ==
    \E j \in 1..(i - 1) : ToLowerOpensAt(q, j) /\ ArgumentStart(q, j) = i

ToLowerCount(q) == Cardinality({j \in 1..Len(q) : IsToLowerTok(q[j])})

\* the targets of a query, from left to right, from position i
RECURSIVE TargetsFrom(_, _)
TargetsFrom(q, i) ==
    IF i > Len(q) THEN << >>
    ELSE IF Tok(q, i) \in StrLits THEN <<(<<q[i]>>)>> \o TargetsFrom(q, i + 1)
    ELSE IF TargetAt(q, i) THEN <<SubSeq(q, i, i + 2)>> \o TargetsFrom(q, i + 3)
    ELSE TargetsFrom(q, i + 1)

\* C15: the case-folding rule never nests a wrap: in its output every target is
\* immediately preceded by toLower( and no toLower( is itself the argument of a
\* toLower( ; the targets that were so preceded in the input are left as they
\* are and each other target gets exactly one wrap (three more tokens each, the
\* targets themselves unchanged); applying the rule to its output changes
\* nothing.
C15_CaseFoldNeverNests ==
    (pp_rule = "FoldCase" /\ pp_applied >= 1) =>
        LET bare == {i \in TargetPositions(pp_in) : ~PrecededByToLower(pp_in, i)}
        IN  /\ \A i \in TargetPositions(pp_once) : PrecededByToLower(pp_once, i)
            /\ \A j \in 1..Len(pp_once) :
                  ToLowerOpensAt(pp_once, j) =>
                      ~ToLowerOpensAt(pp_once, ArgumentStart(pp_once, j))
            /\ TargetsFrom(pp_once, 1) = TargetsFrom(pp_in, 1)
            /\ ToLowerCount(pp_once) = ToLowerCount(pp_in) + Cardinality(bare)
            /\ Len(pp_once) = Len(pp_in) + 3 * Cardinality(bare)
            /\ bare = {} => pp_once = pp_in
            /\ pp_applied = 2 => pp_twice = pp_once

\* toLower( p.category) = toLower(p.motivation + 'physics') ... RETURN toLower(s.name):
\* three targets are left as they are, 'physics' is wrapped
C15_Witness ==
    /\ pp_rule = "FoldCase"
    /\ pp_applied = 2
    /\ Cardinality({i \in TargetPositions(pp_in) : PrecededByToLower(pp_in, i)}) = 3
    /\ Cardinality({i \in TargetPositions(pp_in) : ~PrecededByToLower(pp_in, i)}) = 1
    /\ pp_once # pp_in
    /\ pp_twice = pp_once

\* the similarity of the i-th exemplar a top_k call returned
ReturnedSim(i) == top_k_call.sims[top_k_call.items[i]]

\* C16 as stated: top_k returns exemplars in order of decreasing cosine
\* similarity, and exemplars of equal similarity in corpus insertion order, the
\* earlier-inserted first.
C16_TiesInInsertionOrder ==
    top_k_call.called =>
        \A i, j \in 1..Len(top_k_call.items) :
            i < j =>
                \/ ReturnedSim(i) > ReturnedSim(j)
                \/ /\ ReturnedSim(i) = ReturnedSim(j)
                   /\ top_k_call.items[i] < top_k_call.items[j]

\* C17 as stated: a top_k running concurrently with add_exemplar never observes a
\* partially built model: the retriever a reader uses always has a similarity
\* matrix with exactly one row per exemplar of its corpus (the rebuild makes a
\* new snapshot and swaps it in; it mutates nothing a reader can see).
C17_ReaderSeesWholeSnapshot ==
    \A r \in Readers :
        reader_pc[r] \in {"loaded", "ranked"} =>
            Len(reader_self[r].matrix) = Len(CorpusOf(reader_self[r]))

\* C18: top_k called with k larger than the corpus size raises no error and
\* returns every exemplar of the corpus exactly once, the more similar first.
C18_LargeKReturnsWholeCorpus ==
    (top_k_call.called /\ top_k_call.k > Len(top_k_call.corpus)) =>
        /\ top_k_call.ok
        /\ Len(top_k_call.items) = Len(top_k_call.corpus)
        /\ \A e \in 1..Len(top_k_call.corpus) :
              Cardinality({i \in 1..Len(top_k_call.items) :
                              top_k_call.items[i] = top_k_call.corpus[e]}) = 1
        /\ \A i, j \in 1..Len(top_k_call.items) : i < j => ReturnedSim(i) >= ReturnedSim(j)

C18_Witness ==
    /\ top_k_call.called
    /\ adds = MaxAdds
    /\ top_k_call.k > Len(top_k_call.corpus)
    /\ top_k_call.ok
    /\ Len(top_k_call.items) = Len(SeedExemplars) + MaxAdds
    /\ ReturnedSim(1) > ReturnedSim(Len(top_k_call.items))

\* C19: whenever self_refinement_loop returns, the retries list of the trace has
\* one entry per validation performed, in order, with attempt numbers 1..n and
\* n at most 3; every entry has status success or failed, as its validation
\* went, never unknown; only the last entry can be a success.
C19_RetriesMirrorValidations ==
    LoopReturned =>
        /\ Len(retries) = Len(validated)
        /\ Len(retries) \in 1..3
        /\ \A i \in 1..Len(retries) :
              /\ retries[i].attempt = i
              /\ retries[i].status \in {"success", "failed"}
              /\ retries[i].status = "success" <=> validated[i].ok
              /\ retries[i].status = "success" => i = Len(retries)
              /\ retries[i].repaired <=> i < Len(retries)

C19_Witness ==
    /\ LoopReturned
    /\ Len(retries) = 3
    /\ retries[1].status = "failed"
    /\ retries[2].status = "failed"
    /\ retries[3].status = "success"

\* what _prune was given and what it returned at initial generation
PruneCall == oracle_calls[1]

\* C20: each repair invocation receives the question, exactly the query that
\* failed the immediately preceding validation, the error text of that
\* failure, the pruned schema computed at initial generation and the full
\* schema; both schemas are the same in every repair of a request; the
\* repaired draft (normalised) replaces the previous query and is the next
\* query validated.
C20_RepairGetsFailedQueryAndSchemas ==
    /\ Len(repair_args) <= Len(validated)
    /\ \A i \in 1..Len(repair_args) :
          /\ ~validated[i].ok
          /\ PruneCall.call = "prune" /\ PruneCall.ok
          /\ PruneCall.input_schema = full_schema
          /\ full_schema \in FullSchemas
          /\ repair_args[i] =
                 [question |-> question,
                  invalid_query |-> validated[i].query,
                  error_message |-> validated[i].error,
                  schema |-> PruneCall.pruned,
                  full_schema |-> full_schema]
          /\ \A j \in 1..Len(repair_args) :
                /\ repair_args[j].schema = repair_args[i].schema
                /\ repair_args[j].full_schema = repair_args[i].full_schema
          /\ Len(DeliveredDrafts) > i =>
                /\ i = Len(validated) => cypher = post_process_cypher(DeliveredDrafts[i + 1])
                /\ i < Len(validated) =>
                      validated[i + 1].query = post_process_cypher(DeliveredDrafts[i + 1])

C20_Witness ==
    /\ Len(repair_args) = 2
    /\ Len(validated) = 3
    /\ repair_args[1].invalid_query # repair_args[2].invalid_query
    /\ repair_args[1].error_message # repair_args[2].error_message
    /\ repair_args[2].invalid_query = validated[2].query
    /\ validated[3].query = post_process_cypher(DeliveredDrafts[3])
    /\ validated[3].query # validated[2].query

\* the token at position i of q is one of the declared variables and what
\* follows it, blanks skipped, is neither '.' nor '('
BareDeclaredAt(q, declared, i) ==
    /\ Tok(q, i) \in declared
    /\ Tok(q, SkipWS(q, i + 1)) # "."
    /\ Tok(q, SkipWS(q, i + 1)) # "("

\* the positions of q after its last RETURN keyword and before the ORDER BY,
\* SKIP or LIMIT suffix of that clause
ReturnContent(q) ==
    IF ReturnPositions(q) = {} THEN {}
    ELSE LET r == LastReturn(q)
         IN  (r + 1)..(r + SuffixStart(Slice(q, r + 1, Len(q))) - 1)

\* the positions of q the return-clause rule rewrites
Rewritten(q) ==
    LET declared == DeclaredVars(q)
    IN  {i \in ReturnContent(q) : BareDeclaredAt(q, declared, i)}

\* where the tokens of q stand after the rule: each rewritten token before
\* position i has become three tokens
Moved(q) ==
    LET rewritten == Rewritten(q)
    IN  [i \in 1..(Len(q) + 1) |-> i + 2 * Cardinality({j \in rewritten : j < i})]

\* C21: the return-clause expansion rewrites only the declared variables that
\* stand after the last RETURN keyword and before any ORDER BY/SKIP/LIMIT
\* suffix and are not followed by '.' or '(': a variable declared with label
\* Scholar becomes variable.knownName, any other declared variable
\* variable.name; every other token (one followed by '.' or '(', one that is no
\* declared variable, the text up to the last RETURN, the suffix) is left as
\* it is, in its place.
C21_OnlyBareVariablesRewritten ==
    (pp_rule = "ExpandReturn" /\ pp_applied >= 1) =>
        LET rewritten == Rewritten(pp_in)
            moved == Moved(pp_in)
        IN  /\ Len(pp_once) = moved[Len(pp_in) + 1] - 1
            /\ \A i \in 1..Len(pp_in) :
                  IF i \in rewritten
                  THEN /\ pp_once[moved[i]] = pp_in[i]
                       /\ pp_once[moved[i] + 1] = "."
                       /\ pp_once[moved[i] + 2] =
                              (IF VarLabel(pp_in, pp_in[i]) = "Scholar"
                               THEN "knownName" ELSE "name")
                       /\ moved[i + 1] = moved[i] + 3
                  ELSE /\ pp_once[moved[i]] = pp_in[i]
                       /\ moved[i + 1] = moved[i] + 1
            /\ rewritten \subseteq ReturnContent(pp_in)

\* MATCH (s:Scholar)-[:WON]->(p:Prize) RETURN p, p.category ORDER BY s.name SKIP 5
C21_Witness ==
    /\ pp_rule = "ExpandReturn"
    /\ pp_applied = 1
    /\ DeclaredVars(pp_in) = {"s", "p"}
    /\ Cardinality(Rewritten(pp_in)) = 1
    /\ \E i \in Rewritten(pp_in) : pp_in[i] = "p" /\ pp_once[Moved(pp_in)[i] + 2] = "name"
    /\ \E i \in ReturnContent(pp_in) :
          pp_in[i] = "p" /\ i \notin Rewritten(pp_in) /\ pp_in[i + 2] = "category"
    /\ \E i \in 1..Len(pp_in) :
          /\ i \notin ReturnContent(pp_in)
          /\ i > LastReturn(pp_in)
          /\ pp_in[i] = "s"
          /\ pp_once[Moved(pp_in)[i]] = "s"

\* how many more '(' than ')' stand at the positions a..b of q
Depth(q, a, b) ==
    Cardinality({m \in a..b : q[m] = "("}) - Cardinality({m \in a..b : q[m] = ")"})

\* position i of q lies inside the parentheses of a toLower call
InsideToLowerArgument(q, i) ==
    \E j \in 1..(i - 1) :
        /\ ToLowerOpensAt(q, j)
        /\ SkipWS(q, j + 1) < i
        /\ \A m \in SkipWS(q, j + 1)..(i - 1) : Depth(q, SkipWS(q, j + 1), m) >= 1

LiteralPositions(q) == {i \in 1..Len(q) : q[i] \in StrLits}

\* the position of the n-th quoted literal of q
NthLiteral(q, n) ==
    CHOOSE i \in LiteralPositions(q) :
        Cardinality({j \in LiteralPositions(q) : j < i}) = n - 1

\* C22 as stated: a quoted string literal anywhere inside the argument of an
\* existing toLower(...) call is left unchanged by the case-folding rule (it
\* gets no wrap of its own), also when it is not the first token of the argument.
C22_LiteralInsideCallUntouched ==
    (pp_rule = "FoldCase" /\ pp_applied >= 1) =>
        /\ Cardinality(LiteralPositions(pp_once)) = Cardinality(LiteralPositions(pp_in))
        /\ \A n \in 1..Cardinality(LiteralPositions(pp_in)) :
              InsideToLowerArgument(pp_in, NthLiteral(pp_in, n)) =>
                  /\ pp_once[NthLiteral(pp_once, n)] = pp_in[NthLiteral(pp_in, n)]
                  /\ PrecededByToLower(pp_once, NthLiteral(pp_once, n))
                         <=> PrecededByToLower(pp_in, NthLiteral(pp_in, n))

\* every add_exemplar call that was made has returned
AllAddsReturned == \A w \in Writers : writer_pc[w] = "idle"

\* C23 as stated: after any set of add_exemplar calls, possibly concurrent, have
\* all returned, the retriever in use covers the whole corpus: its matrix has
\* one row per exemplar of EXEMPLARS, so no addition is lost.
C23_NoAdditionLost ==
    AllAddsReturned => retriever.matrix = EXEMPLARS

\* the two requests of a POST that went through steps 1 and 2
BothRequestsSucceeded ==
    api_requests = <<NatsRequest("query", TRUE), NatsRequest("answer", TRUE)>>

\* C24: POST /question writes to the cache only after the request to the query
\* service and the request to the answer service have both succeeded, and then
\* once, the parsed answer under the key of the question; a POST that ends in
\* HTTP 500 has written nothing to the cache.
C24_CacheWrittenOnlyAfterBothSteps ==
    /\ mem_sets # << >> =>
        /\ BothRequestsSucceeded
        /\ mem_sets = <<[key |-> api_question, value |-> answer]>>
    /\ response.status = 500 => mem_sets = << >>

\* a POST that failed at step 2 while the cache held an answer: nothing was written
C24_Witness ==
    /\ api_pc = "done"
    /\ response = HTTPException("Failed to generate answer")
    /\ api_requests = <<NatsRequest("query", TRUE), NatsRequest("answer", FALSE)>>
    /\ mem_sets = << >>
    /\ \E q \in ApiQuestions : memcache[q] = "Marie Curie"

\* C25: a POST /question that finds the answer of an earlier POST for the same
\* question still stored (cached_value is the stored value: a value gets into
\* memcache only by CacheAnswer and leaves it only by Evict) is answered from the
\* cache, with that answer and without any request to the two services.
C25_StoredAnswerServedFromCache ==
    (api_pc # "idle" /\ cached_value # NoValue) =>
        /\ api_pc = "done"
        /\ response = OkResponse(cached_value, TRUE)
        /\ api_requests = << >>

\* C26: once the query service has replied with a result payload and the answer
\* service has generated an answer and sent it, POST /question ends with status
\* 200 and returns that answer.
C26_GeneratedAnswerReturned ==
    (api_pc = "done" /\ data = "result_payload" /\ generated # NoValue) =>
        /\ response.status = 200
        /\ response.answer = generated

====
